---- MODULE Spec2Model ----
(***************************************************************************)
(* The inventory store of the grocery bot (src/utils/database.py over the  *)
(* schema of src/database_setup.py): the two tables, the mutator           *)
(* update_inventory, the bulk clear clear_all_inventory and the listing    *)
(* query_all_inventory, one action per call.                               *)
(*                                                                         *)
(* A name is a sequence of characters (one-character strings), so that     *)
(* str.lower() and the byte order of ORDER BY are computed, not assumed.   *)
(* A quantity is an integer standing for the REAL column.  A timestamp     *)
(* (last_updated, transaction_time) is not modelled: no statement reads it.*)
(***************************************************************************)
EXTENDS Integers, Sequences, FiniteSets, TLC

VARIABLES inventory, transaction_log, applied, last,
          pending_items, prompts, tasks, receipt_unapplied

\* the state of the handlers of main.py: a user's pending receipt, the
\* messages with buttons in the chat, the coroutines in flight, and whether
\* the latest receipt stored is yet to be added
handlers == <<pending_items, prompts, tasks, receipt_unapplied>>

vars == <<inventory, transaction_log, applied, last, handlers>>

(***************************************************************************)
(* Bounds of the model.                                                    *)
(***************************************************************************)
\* the longest transaction_log explored
MaxLog == 3

(***************************************************************************)
(* Inputs.                                                                 *)
(***************************************************************************)
\* the first names of the actors: of the calls of update_inventory, and of
\* the calls of clear_all_inventory
UpdateUsers == {"Andi"}

ClearUsers == {"Andi", "Budi"}

\* the verbs main.py passes (handle_text_message, button_callback_handler)
Actions == {"ADD", "USE"}

\* names as the caller passes them: "A" and "b"
InputNames == {<<"A">>, <<"b">>}

\* the value under the key "quantity" of an item dict: a number, a
\* non-numeric string, null, or no such key
Num(n) == [kind |-> "num", val |-> n]

NumericQuantities == {Num(-1), Num(1), Num(2)}

NoQuantityKey == [kind |-> "absent", val |-> 0]

UnparsableQuantities == {[kind |-> "str", val |-> 0], [kind |-> "null", val |-> 0]}

Item(name, quantity) == [name |-> name, quantity |-> quantity, unit |-> "kg"]

Items ==
    {Item(n, q) : n \in InputNames, q \in NumericQuantities}
        \cup {Item(<<"A">>, NoQuantityKey)}
        \cup {Item(<<"b">>, q) : q \in UnparsableQuantities}

\* item lists of one or two items, no longer than n
BatchesUpTo(n) == UNION {[1 .. k -> Items] : k \in {k \in {1, 2} : k <= n}}

(***************************************************************************)
(* Strings.                                                                *)
(***************************************************************************)
\* str.lower() on one character
LowerChar(c) == CASE c = "A" -> "a"
                  [] c = "B" -> "b"
                  [] OTHER -> c

\* str.lower()
Lower(s) == [i \in 1 .. Len(s) |-> LowerChar(s[i])]

\* the byte of a character
Ord(c) == CASE c = " " -> 32
            [] c = "A" -> 65
            [] c = "B" -> 66
            [] c = "a" -> 97
            [] c = "b" -> 98
            [] c = "d" -> 100
            [] c = "e" -> 101
            [] c = "g" -> 103
            [] c = "i" -> 105
            [] c = "l" -> 108
            [] c = "m" -> 109
            [] c = "n" -> 110
            [] c = "r" -> 114
            [] c = "t" -> 116
            [] c = "u" -> 117
            [] c = "y" -> 121

\* s sorts strictly before t under SQLite's BINARY collation (memcmp, then
\* the shorter string first)
RECURSIVE NameLess(_, _)
NameLess(s, t) ==
    IF t = <<>> THEN FALSE
    ELSE IF s = <<>> THEN TRUE
    ELSE IF Ord(Head(s)) # Ord(Head(t)) THEN Ord(Head(s)) < Ord(Head(t))
    ELSE NameLess(Tail(s), Tail(t))

\* str.strip(): the string without its leading and trailing spaces
RECURSIVE Strip(_)
Strip(s) ==
    IF s = <<>> THEN s
    ELSE IF Head(s) = " " THEN Strip(Tail(s))
    ELSE IF s[Len(s)] = " " THEN Strip(SubSeq(s, 1, Len(s) - 1))
    ELSE s

\* s.startswith(prefix)
StartsWith(s, prefix) ==
    Len(prefix) <= Len(s) /\ SubSeq(s, 1, Len(prefix)) = prefix

\* sub in s
Contains(s, sub) ==
    \E k \in 0 .. Len(s) - Len(sub) : SubSeq(s, k + 1, k + Len(sub)) = sub

(***************************************************************************)
(* Python helpers.                                                         *)
(***************************************************************************)
\* max(0, x)
Max0(x) == IF x > 0 THEN x ELSE 0

\* float(item.get("quantity", 0)) raises ValueError on a non-numeric string
\* and TypeError on None
FloatRaises(q) == q.kind \in {"str", "null"}

\* float(item.get("quantity", 0)) when it returns: the number, 0 without key
FloatValue(q) == IF q.kind = "num" THEN q.val ELSE 0

(***************************************************************************)
(* The tables.  inventory is the sequence of rows in rowid order,          *)
(* transaction_log the sequence of log rows in rowid order.                *)
(***************************************************************************)
InventoryRow(name, quantity, unit, user) ==
    [item_name |-> name, quantity |-> quantity, unit |-> unit,
     last_updated_by |-> user]

LogRow(name, change, user) ==
    [item_name |-> name, quantity_change |-> change, user_name |-> user]

\* the state a connection works on
Db(inv, log) == [inventory |-> inv, transaction_log |-> log]

\* SELECT quantity FROM inventory WHERE item_name = ?; fetchone(): the index
\* of the first matching row, 0 for None
SelectRow(inv, name) ==
    IF \E i \in 1 .. Len(inv) : inv[i].item_name = name
    THEN CHOOSE i \in 1 .. Len(inv) :
            /\ inv[i].item_name = name
            /\ \A j \in 1 .. i - 1 : inv[j].item_name # name
    ELSE 0

\* item_name TEXT NOT NULL UNIQUE: the INSERT of a second row of a name
\* raises sqlite3.IntegrityError
UniqueViolated(inv, name) == \E i \in 1 .. Len(inv) : inv[i].item_name = name

\* INSERT INTO inventory (...) VALUES (...), the constraint passed
InsertRow(inv, row) == Append(inv, row)

\* UPDATE inventory SET quantity = ?, last_updated_by = ? WHERE item_name = ?
UpdateRow(inv, name, quantity, user) ==
    [i \in 1 .. Len(inv) |->
        IF inv[i].item_name = name
        THEN [inv[i] EXCEPT !.quantity = quantity, !.last_updated_by = user]
        ELSE inv[i]]

\* an UPDATE of the newest entry instead of the INSERT
LogReplaceLast(log, name, change, user) ==
    IF log = <<>> THEN <<LogRow(name, change, user)>>
    ELSE [log EXCEPT ![Len(log)] = LogRow(name, change, user)]

\* log_transaction: INSERT INTO transaction_log
log_transaction(log, name, change, user) ==
    Append(log, LogRow(name, change, user))

(***************************************************************************)
(* update_inventory.  A step of the batch returns the working state and    *)
(* how the step ended: "ok", "sqlerror" (a statement raised sqlite3.Error) *)
(* or "raise" (another exception).  A storage failure is an input: `fail'  *)
(* names the statement that raises, NoFail none.                           *)
(***************************************************************************)
Result(status, db) == [status |-> status, db |-> db]

NoFail == [item |-> 0, stmt |-> "none"]

\* the statements that may raise: of item k its SELECT ("select": nothing of
\* the item is written; a failing INSERT or UPDATE leaves the same working
\* state) and its log INSERT ("log": the row is written, the entry is not),
\* and conn.commit() after the last item
FailPoints(items) ==
    {[item |-> k, stmt |-> s] : k \in 1 .. Len(items), s \in {"select", "log"}}
        \cup {[item |-> Len(items) + 1, stmt |-> "commit"]}

\* new_quantity = data[0] + quantity
AddQuantity(old, quantity) == old + quantity

\* a USE that subtracts without the clamp
UseQuantityUnclamped(old, quantity) == old - quantity

\* new_quantity = max(0, data[0] - quantity)
UseQuantity(old, quantity) == Max0(old - quantity)

\* log_transaction(cursor, item_name, quantity, user_name) of the ADD branch
AddLogChange(quantity) == quantity

\* a USE that logs what was taken from the row, not what was requested
UseLogChangeClamped(old, quantity) == Max0(old - quantity) - old

\* log_transaction(cursor, item_name, -quantity, user_name) of the USE branch,
\* on a row holding old
UseLogChange(old, quantity) == 0 - quantity

\* an ADD that never looks the name up, on a table without the constraint
AddWriteAlwaysInsert(inv, name, quantity, unit, user) ==
    Result("ok", InsertRow(inv, InventoryRow(name, quantity, unit, user)))

\* the ADD branch up to its log entry: INSERT when the SELECT found no row
\* (the UNIQUE constraint applies), else UPDATE to old + quantity
AddWrite(inv, name, quantity, unit, user) ==
    LET data == SelectRow(inv, name) IN
    IF data = 0
    THEN IF UniqueViolated(inv, name)
         THEN Result("sqlerror", inv)
         ELSE Result("ok", InsertRow(inv, InventoryRow(name, quantity, unit, user)))
    ELSE Result("ok", UpdateRow(inv, name, AddQuantity(inv[data].quantity, quantity), user))

\* the USE branch on an existing row: UPDATE to max(0, old - quantity)
UseWrite(inv, name, quantity, user) ==
    LET data == SelectRow(inv, name) IN
    UpdateRow(inv, name, UseQuantity(inv[data].quantity, quantity), user)

\* a USE of a name without a row that creates the row at quantity 0
UseAbsentCreatesRow(db, name, user) ==
    Result("ok", Db(InsertRow(db.inventory, InventoryRow(name, 0, "", user)),
                     db.transaction_log))

\* USE of a name without a row: `continue', nothing is executed
UseAbsent(db, name, user) == Result("ok", db)

\* one iteration of `for item in items'
ProcessItem(db, action, item, user, failStmt) ==
    LET item_name == Lower(item.name)
        inv == db.inventory
        log == db.transaction_log
    IN
    IF FloatRaises(item.quantity) THEN Result("raise", db)
    ELSE IF failStmt = "select" THEN Result("sqlerror", db)
    ELSE
      LET quantity == FloatValue(item.quantity)
          data == SelectRow(inv, item_name)
      IN
      IF action = "ADD"
      THEN LET w == AddWrite(inv, item_name, quantity, item.unit, user) IN
           IF w.status # "ok" THEN Result("sqlerror", db)
           ELSE IF failStmt = "log" THEN Result("sqlerror", Db(w.db, log))
           ELSE Result("ok", Db(w.db,
                   log_transaction(log, item_name, AddLogChange(quantity), user)))
      ELSE IF data = 0 THEN UseAbsent(db, item_name, user)
           ELSE LET w == UseWrite(inv, item_name, quantity, user) IN
                IF failStmt = "log" THEN Result("sqlerror", Db(w, log))
                ELSE Result("ok", Db(w,
                        log_transaction(log, item_name,
                                        UseLogChange(inv[data].quantity, quantity), user)))

\* the loop from item k on, then conn.commit()
RECURSIVE RunBatch(_, _, _, _, _, _)
RunBatch(db, action, items, user, k, fail) ==
    IF k > Len(items)
    THEN IF fail.stmt = "commit" THEN Result("sqlerror", db) ELSE Result("ok", db)
    ELSE LET r == ProcessItem(db, action, items[k], user,
                              IF fail.item = k THEN fail.stmt ELSE "none")
         IN IF r.status = "ok"
            THEN RunBatch(r.db, action, items, user, k + 1, fail)
            ELSE r

\* a rollback that keeps what the statements before the failure wrote
RollbackKeepsWork(committed, working) == working

\* conn.rollback(): the state of the last commit
Rollback(committed, working) == committed

\* conn.close() on a connection with uncommitted statements discards them
CloseUncommitted(committed, working) == committed

\* what a call leaves behind: the value returned ("True", "False", or
\* "raise" for an exception that leaves the function), the committed state,
\* what the storage did ("ok", "noconn": create_connection() returned None,
\* "sqlerror": a statement raised sqlite3.Error) and whether executed
\* statements were discarded
Outcome(ret, db, storage, discarded) ==
    [ret |-> ret, db |-> db, storage |-> storage, discarded |-> discarded]

\* update_inventory(action, items, user_name); connected is
\* create_connection() returning a connection
update_inventory(db, action, items, user, connected, fail) ==
    IF ~connected THEN Outcome("False", db, "noconn", FALSE)
    ELSE LET r == RunBatch(db, action, items, user, 1, fail) IN
         CASE r.status = "ok" -> Outcome("True", r.db, "ok", FALSE)
           [] r.status = "sqlerror" ->
                Outcome("False", Rollback(db, r.db), "sqlerror", r.db # db)
           [] OTHER -> Outcome("raise", CloseUncommitted(db, r.db), "ok", r.db # db)

(***************************************************************************)
(* clear_all_inventory.                                                    *)
(***************************************************************************)
\* SELECT item_name, quantity, unit FROM inventory WHERE quantity > 0
PositiveRows(inv) == SelectSeq(inv, LAMBDA r : r.quantity > 0)

\* the statements of clear_all_inventory on n rows to clear
ClearFailPoints(n) ==
    {[item |-> k, stmt |-> "log"] : k \in 1 .. n}
        \cup {[item |-> 0, stmt |-> s] : s \in {"select", "update", "delete", "commit"}}

\* for item_name, quantity, unit in items_to_clear: log_transaction(cursor,
\* item_name, -quantity, user_name), from row k on
RECURSIVE LogCleared(_, _, _, _, _)
LogCleared(log, rows, user, k, fail) ==
    IF k > Len(rows) THEN Result("ok", log)
    ELSE IF fail.stmt = "log" /\ fail.item = k THEN Result("sqlerror", log)
    ELSE LogCleared(log_transaction(log, rows[k].item_name, 0 - rows[k].quantity, user),
                    rows, user, k + 1, fail)

\* the UPDATE restricted to the rows it selected: WHERE quantity > 0
ZeroPositive(inv, user) ==
    [i \in 1 .. Len(inv) |->
        IF inv[i].quantity > 0
        THEN [inv[i] EXCEPT !.quantity = 0, !.last_updated_by = user]
        ELSE inv[i]]

\* UPDATE inventory SET quantity = 0, last_updated = ?, last_updated_by = ?
ZeroAll(inv, user) ==
    [i \in 1 .. Len(inv) |-> [inv[i] EXCEPT !.quantity = 0, !.last_updated_by = user]]

\* DELETE FROM inventory WHERE quantity = 0
DeleteZero(inv) == SelectSeq(inv, LAMBDA r : r.quantity # 0)

\* the try block without the early return on an empty selection
ClearRunThrough(db, user, fail) ==
    IF fail.stmt = "select" THEN Result("sqlerror", db)
    ELSE LET l == LogCleared(db.transaction_log, PositiveRows(db.inventory), user, 1, fail) IN
      IF l.status # "ok" \/ fail.stmt = "update" THEN Result("sqlerror", Db(db.inventory, l.db))
      ELSE IF fail.stmt = "delete" THEN Result("sqlerror", Db(ZeroAll(db.inventory, user), l.db))
      ELSE IF fail.stmt = "commit"
           THEN Result("sqlerror", Db(DeleteZero(ZeroAll(db.inventory, user)), l.db))
      ELSE Result("ok", Db(DeleteZero(ZeroAll(db.inventory, user)), l.db))

\* the body of the try block; "nothing" is the early `return True'
ClearRun(db, user, fail) ==
    IF fail.stmt = "select" THEN Result("sqlerror", db)
    ELSE LET items_to_clear == PositiveRows(db.inventory) IN
      IF items_to_clear = <<>> THEN Result("nothing", db)
      ELSE LET l == LogCleared(db.transaction_log, items_to_clear, user, 1, fail) IN
        IF l.status # "ok" THEN Result("sqlerror", Db(db.inventory, l.db))
        ELSE IF fail.stmt = "update" THEN Result("sqlerror", Db(db.inventory, l.db))
        ELSE LET zeroed == ZeroAll(db.inventory, user) IN
          IF fail.stmt = "delete" THEN Result("sqlerror", Db(zeroed, l.db))
          ELSE LET pruned == DeleteZero(zeroed) IN
            IF fail.stmt = "commit" THEN Result("sqlerror", Db(pruned, l.db))
            ELSE Result("ok", Db(pruned, l.db))

\* clear_all_inventory(user_name)
clear_all_inventory(db, user, connected, fail) ==
    IF ~connected THEN Outcome("False", db, "noconn", FALSE)
    ELSE LET r == ClearRun(db, user, fail) IN
         CASE r.status = "ok" -> Outcome("True", r.db, "ok", FALSE)
           [] r.status = "nothing" ->
                Outcome("True", CloseUncommitted(db, r.db), "ok", FALSE)
           [] OTHER -> Outcome("False", Rollback(db, r.db), "sqlerror", r.db # db)

(***************************************************************************)
(* query_all_inventory.                                                    *)
(***************************************************************************)
\* the result row of SELECT item_name, quantity, unit
Listed(r) == [item_name |-> r.item_name, quantity |-> r.quantity, unit |-> r.unit]

\* WHERE quantity > 0
WherePositive(inv) == SelectSeq(inv, LAMBDA r : r.quantity > 0)

\* rows without the one at index i
RemoveAt(rows, i) == [j \in 1 .. Len(rows) - 1 |-> IF j < i THEN rows[j] ELSE rows[j + 1]]

\* a listing without ORDER BY: the rows in rowid order
OrderByRowid(rows) == rows

\* ORDER BY item_name ASC: the least name first, the earlier row on a tie
RECURSIVE OrderByName(_)
OrderByName(rows) ==
    IF rows = <<>> THEN <<>>
    ELSE LET i == CHOOSE i \in 1 .. Len(rows) :
                    /\ \A j \in 1 .. Len(rows) : ~NameLess(rows[j].item_name, rows[i].item_name)
                    /\ \A j \in 1 .. i - 1 : NameLess(rows[i].item_name, rows[j].item_name)
         IN <<rows[i]>> \o OrderByName(RemoveAt(rows, i))

\* SELECT item_name, quantity, unit FROM inventory WHERE quantity > 0
\* ORDER BY item_name ASC; fetchall()
SelectAllOrdered(inv) ==
    LET rows == OrderByName(WherePositive(inv)) IN
    [i \in 1 .. Len(rows) |-> Listed(rows[i])]

\* what create_connection() returning None, and the except branch, return
QueryAllOnError == <<>>

\* query_all_inventory(): the list it returns; failed is the SELECT raising
query_all_inventory(db, connected, failed) ==
    IF ~connected THEN QueryAllOnError
    ELSE IF failed THEN QueryAllOnError
    ELSE SelectAllOrdered(db.inventory)

(***************************************************************************)
(* query_inventory.                                                        *)
(***************************************************************************)
\* what query_inventory tells: the stock of the name asked ("stock"), a
\* suggested row ("suggest"), that nothing was found ("notfound"), or one
\* of its two failure messages ("noconn", "error")
Answer(kind, name, quantity, unit) ==
    [kind |-> kind, name |-> name, quantity |-> quantity, unit |-> unit]

\* the first row a sequence of rows offers for item_lower: the index of the
\* first row whose name contains item_lower or is contained in it, 0 if none
FirstRelated(rows, item_lower) ==
    LET related(i) == \/ Contains(rows[i].item_name, item_lower)
                      \/ Contains(item_lower, rows[i].item_name) IN
    IF \E i \in 1 .. Len(rows) : related(i)
    THEN CHOOSE i \in 1 .. Len(rows) : related(i) /\ \A j \in 1 .. i - 1 : ~related(j)
    ELSE 0

\* the scan for a suggestion over every row, the rows at 0 included
SuggestFromAll(inv, item_name) ==
    LET i == FirstRelated(inv, Lower(item_name)) IN
    IF i # 0
    THEN Answer("suggest", inv[i].item_name, inv[i].quantity, inv[i].unit)
    ELSE Answer("notfound", item_name, 0, "")

\* SELECT item_name, quantity, unit FROM inventory WHERE quantity > 0 and
\* the loop over its rows
Suggest(inv, item_name) ==
    LET all_items == PositiveRows(inv)
        i == FirstRelated(all_items, Lower(item_name)) IN
    IF i # 0
    THEN Answer("suggest", all_items[i].item_name, all_items[i].quantity,
                all_items[i].unit)
    ELSE Answer("notfound", item_name, 0, "")

\* query_inventory(item_name); failed is a SELECT raising sqlite3.Error
query_inventory(db, item_name, connected, failed) ==
    IF ~connected THEN Answer("noconn", item_name, 0, "")
    ELSE IF failed THEN Answer("error", item_name, 0, "")
    ELSE LET data == SelectRow(db.inventory, Lower(item_name)) IN
         IF data # 0
         THEN Answer("stock", item_name, db.inventory[data].quantity,
                     db.inventory[data].unit)
         ELSE Suggest(db.inventory, item_name)

(***************************************************************************)
(* normalize_ingredient_name and find_similar_item.  A normalizer is a     *)
(* function from names to what a call returns: [raises, text].  The        *)
(* language model is a function from the name in the prompt to what        *)
(* generate_content and response.text give: [raises, text].                *)
(***************************************************************************)
Returned(text) == [raises |-> FALSE, text |-> text]

Raised == [raises |-> TRUE, text |-> <<>>]

\* for prefix in ["daging ", "buah ", "biji "]
Prefixes ==
    << <<"d", "a", "g", "i", "n", "g", " ">>, <<"b", "u", "a", "h", " ">>,
       <<"b", "i", "j", "i", " ">> >>

\* if normalized.startswith(prefix): normalized = normalized[len(prefix):]
StripPrefix(normalized, prefix) ==
    IF StartsWith(normalized, prefix)
    THEN SubSeq(normalized, Len(prefix) + 1, Len(normalized))
    ELSE normalized

\* the except branch: lower, strip, then the loop over the prefixes in order
Fallback(item_name) ==
    StripPrefix(StripPrefix(StripPrefix(Strip(Lower(item_name)), Prefixes[1]),
                            Prefixes[2]), Prefixes[3])

\* the function without its except branch
NormalizeUncaught(item_name, llm) ==
    IF llm[item_name].raises THEN Raised
    ELSE Returned(Lower(Strip(llm[item_name].text)))

\* normalize_ingredient_name(item_name)
normalize_ingredient_name(item_name, llm) ==
    IF llm[item_name].raises THEN Returned(Fallback(item_name))
    ELSE Returned(Lower(Strip(llm[item_name].text)))

\* the argument normalize_func: None, or a callable
NoNormalizer == [supplied |-> FALSE, f |-> <<>>]

Normalizer(f) == [supplied |-> TRUE, f |-> f]

\* SELECT DISTINCT item_name FROM inventory WHERE quantity > 0, in rowid
\* order (item_name is UNIQUE, the scan is the table's)
ExistingItems(inv) ==
    LET rows == PositiveRows(inv) IN [i \in 1 .. Len(rows) |-> rows[i].item_name]

\* for existing in existing_items: the index of the first name in a set of
\* names, 0 if the loop ends without one
FirstIndex(existing_items, names) ==
    IF \E i \in 1 .. Len(existing_items) : existing_items[i] \in names
    THEN CHOOSE i \in 1 .. Len(existing_items) :
            /\ existing_items[i] \in names
            /\ \A j \in 1 .. i - 1 : existing_items[j] \notin names
    ELSE 0

\* the names of a sequence
Range(seq) == {seq[i] : i \in 1 .. Len(seq)}

\* the branch without a normalizer: the loop comparing lowercased names
ExactMatch(existing_items, item_name) ==
    LET i == FirstIndex(existing_items,
                        {e \in Range(existing_items) : Lower(e) = Lower(item_name)}) IN
    IF i # 0 THEN existing_items[i] ELSE Lower(item_name)

\* the branch with a normalizer returning the normalized string on a match
NormalizedMatchNormalized(existing_items, item_name, f) ==
    IF f[item_name].raises \/ \E i \in 1 .. Len(existing_items) : f[existing_items[i]].raises
    THEN Lower(item_name)
    ELSE f[item_name].text

\* the branch with a normalizer: the loop stops at the first existing name
\* whose normalization raises (the except branch returns item_name.lower())
\* or equals the candidate's
NormalizedMatch(existing_items, item_name, f) ==
    IF f[item_name].raises THEN Lower(item_name)
    ELSE LET normalized_new == f[item_name].text
             i == FirstIndex(existing_items,
                             {e \in Range(existing_items) :
                                 f[e].raises \/ f[e].text = normalized_new}) IN
         IF i = 0 THEN normalized_new
         ELSE IF f[existing_items[i]].raises THEN Lower(item_name)
         ELSE existing_items[i]

\* find_similar_item(item_name, normalize_func)
find_similar_item(inv, item_name, normalize_func, connected) ==
    IF ~connected THEN Lower(item_name)
    ELSE LET existing_items == ExistingItems(inv) IN
         IF existing_items = <<>> THEN Lower(item_name)
         ELSE IF normalize_func.supplied
              THEN NormalizedMatch(existing_items, item_name, normalize_func.f)
              ELSE ExactMatch(existing_items, item_name)

(***************************************************************************)
(* The state machine.  `last' records the latest call: the function, what  *)
(* the storage did in it ("ok", "noconn": create_connection() returned     *)
(* None, "sqlerror": a statement raised sqlite3.Error), whether statements *)
(* were executed and then discarded, what it returned ("True", "False",    *)
(* "raise" for an exception that left the function) and the list it        *)
(* returned; for update_inventory also the verb and the number of items.   *)
(* `applied' lists the items of the committed update_inventory calls that  *)
(* reached a row, since the inventory table was last empty.                *)
(***************************************************************************)
Call(op, action, batch, storage, discarded, ret, rows) ==
    [op |-> op, action |-> action, batch |-> batch, storage |-> storage,
     discarded |-> discarded, ret |-> ret, rows |-> rows]

AppliedOp(action, item, user) ==
    [action |-> action, name |-> Lower(item.name),
     quantity |-> FloatValue(item.quantity), user |-> user]

\* the items of a batch that reach a row: every ADD item, and every USE item
\* whose name has a row (a USE never creates one)
AppliedOps(inv, action, items, user) ==
    LET ops == [i \in 1 .. Len(items) |-> AppliedOp(action, items[i], user)] IN
    SelectSeq(ops, LAMBDA o : action = "ADD" \/ SelectRow(inv, o.name) # 0)

\* the coroutines of handlers that can be in flight at once
Slots == {1, 2}

\* a coroutine: the handler, the statement it is to execute next, the verb
\* and items of the message or the items of the prompt whose button was
\* pressed (original), and its locals: the items it holds and items_count
Task(handler, pc, action, original, items, count) ==
    [handler |-> handler, pc |-> pc, action |-> action, original |-> original,
     items |-> items, count |-> count]

IdleTask == Task("idle", "done", "", <<>>, <<>>, 0)

Init ==
    /\ inventory = <<>>
    /\ transaction_log = <<>>
    /\ applied = <<>>
    /\ last = Call("none", "", 0, "ok", FALSE, "", <<>>)
    /\ pending_items = <<>>
    /\ prompts = {}
    /\ tasks = [slot \in Slots |-> IdleTask]
    /\ receipt_unapplied = FALSE

UpdateInventory ==
    \E action \in Actions, user \in UpdateUsers :
    \E items \in BatchesUpTo(MaxLog - Len(transaction_log)) :
    \E connected \in BOOLEAN :
    \E fail \in IF connected THEN {NoFail} \cup FailPoints(items) ELSE {NoFail} :
    \E r \in {update_inventory(Db(inventory, transaction_log), action, items,
                                user, connected, fail)} :
         /\ inventory' = r.db.inventory
         /\ transaction_log' = r.db.transaction_log
         /\ applied' = IF r.ret = "True"
                       THEN applied \o AppliedOps(inventory, action, items, user)
                       ELSE applied
         /\ last' = Call("update_inventory", action, Len(items), r.storage,
                         r.discarded, r.ret, <<>>)
         /\ UNCHANGED handlers

ClearAllInventory ==
    \E user \in ClearUsers, connected \in BOOLEAN :
    \E fail \in IF connected
                THEN {NoFail} \cup ClearFailPoints(Len(PositiveRows(inventory)))
                ELSE {NoFail} :
      /\ Len(transaction_log) <= MaxLog
      /\ \E r \in {clear_all_inventory(Db(inventory, transaction_log), user,
                                       connected, fail)} :
            /\ inventory' = r.db.inventory
            /\ transaction_log' = r.db.transaction_log
            /\ applied' = IF r.db.inventory = <<>> THEN <<>> ELSE applied
            /\ last' = Call("clear_all_inventory", "", 0, r.storage, r.discarded,
                            r.ret, <<>>)
            /\ UNCHANGED handlers

QueryAllInventory ==
    \E connected \in BOOLEAN :
    \E failed \in IF connected THEN BOOLEAN ELSE {FALSE} :
      /\ last' = Call("query_all_inventory", "", 0,
                      IF ~connected THEN "noconn"
                      ELSE IF failed THEN "sqlerror" ELSE "ok",
                      FALSE, "list",
                      query_all_inventory(Db(inventory, transaction_log), connected, failed))
      /\ UNCHANGED <<inventory, transaction_log, applied, handlers>>

Next ==
    \/ UpdateInventory
    \/ ClearAllInventory
    \/ QueryAllInventory

Spec == Init /\ [][Next]_vars

(***************************************************************************)
(* The bot: the handlers of main.py over the same tables.  BotSpec runs    *)
(* them with the storage answering (its failures are those of Spec) and    *)
(* with a language model that normalizes deterministically: it answers     *)
(* each name with the canonical name, or it is down and                    *)
(* normalize_ingredient_name falls back, to the same names.                *)
(***************************************************************************)
Ayam == <<"a", "y", "a", "m">>

DagingAyam == <<"d", "a", "g", "i", "n", "g", " ", "a", "y", "a", "m">>

Telur == <<"t", "e", "l", "u", "r">>

\* the names in the items of a text message or of a receipt
TextNames == {Ayam, DagingAyam}

\* the names asked of query_inventory and find_similar_item: also "Ayam",
\* " ayam" and a name unrelated to the others
CandidateNames ==
    TextNames \cup {<<"A", "y", "a", "m">>, <<" ", "a", "y", "a", "m">>, Telur}

\* the names a normalizer is called on: the candidate and the stored names
NameUniverse == CandidateNames \cup {Lower(n) : n \in TextNames}

\* generate_content raising for every prompt
LlmDown == [n \in NameUniverse |-> Raised]

\* the answers the prompt asks for: "daging ayam" -> "ayam"
LlmCanonical ==
    [n \in NameUniverse |-> Returned(IF Lower(Strip(n)) = Telur THEN Telur ELSE Ayam)]

\* a model that answers with the name it was given, padded and capitalized
LlmEcho == [n \in NameUniverse |-> Returned(<<" ">> \o n)]

\* a model that answers "telur" for "Ayam" and repeats every other name
LlmOdd ==
    [n \in NameUniverse |-> Returned(IF n = <<"A", "y", "a", "m">> THEN Telur ELSE n)]

\* a model that is down for the stored names only
LlmPartial ==
    [n \in NameUniverse |-> IF n \in {Ayam, DagingAyam} THEN Raised ELSE Returned(Ayam)]

Llms == {LlmDown, LlmCanonical, LlmEcho, LlmOdd, LlmPartial}

\* the language models of BotSpec's handlers
HandlerLlms == {LlmDown, LlmCanonical}

\* normalize_ingredient_name as the callable find_similar_item receives
NormalizeWith(llm) ==
    Normalizer([n \in NameUniverse |-> normalize_ingredient_name(n, llm)])

\* a callable that raises on every name
RaisingNormalizer == Normalizer([n \in NameUniverse |-> Raised])

\* the normalize_func arguments explored
NormalizeFuncs ==
    {NoNormalizer, RaisingNormalizer} \cup {NormalizeWith(llm) : llm \in Llms}

\* the items of a text message or a receipt: one or two, no more than n
TextItems == {Item(n, Num(1)) : n \in TextNames}

TextBatches(n) == UNION {[1 .. k -> TextItems] : k \in {k \in {1, 2} : k <= n}}

\* the latest call of a read-only function: its arguments and its result
Asked(op, storage, item_name, normalize_func, name, answer) ==
    [op |-> op, action |-> "", batch |-> 0, storage |-> storage,
     discarded |-> FALSE, ret |-> "", rows |-> <<>>, item_name |-> item_name,
     normalize_func |-> normalize_func, name |-> name, answer |-> answer]

NoAnswer == Answer("", <<>>, 0, "")

\* for item in items: item["name"] = find_similar_item(original_name,
\* normalize_ingredient_name), every item against the store as it is
\* before update_inventory runs
ResolveItems(inv, items, llm) ==
    [i \in 1 .. Len(items) |->
        [items[i] EXCEPT !.name =
            find_similar_item(inv, items[i].name, NormalizeWith(llm), TRUE)]]

\* handle_text_message on an ADD or USE intent with items
HandleTextAddUse ==
    \E action \in Actions, user \in UpdateUsers, llm \in HandlerLlms :
    \E items \in TextBatches(MaxLog - Len(transaction_log)) :
    \E resolved \in {ResolveItems(inventory, items, llm)} :
    \E r \in {update_inventory(Db(inventory, transaction_log), action, resolved,
                                user, TRUE, NoFail)} :
         /\ inventory' = r.db.inventory
         /\ transaction_log' = r.db.transaction_log
         /\ applied' = applied \o AppliedOps(inventory, action, resolved, user)
         /\ last' = Call("handle_text_message", action, Len(items), r.storage,
                         r.discarded, r.ret, <<>>)
         /\ UNCHANGED handlers

\* button_callback_handler on confirm_add_receipt, pending_items being the
\* items handle_image_message read from the receipt
ConfirmAddReceipt ==
    \E user \in UpdateUsers :
    \E items \in TextBatches(MaxLog - Len(transaction_log)) :
    \E r \in {update_inventory(Db(inventory, transaction_log), "ADD", items,
                                user, TRUE, NoFail)} :
         /\ inventory' = r.db.inventory
         /\ transaction_log' = r.db.transaction_log
         /\ applied' = applied \o AppliedOps(inventory, "ADD", items, user)
         /\ last' = Call("confirm_add_receipt", "ADD", Len(items), r.storage,
                         r.discarded, r.ret, <<>>)
         /\ UNCHANGED handlers

\* button_callback_handler on confirm_clear_all
ConfirmClearAll ==
    \E user \in UpdateUsers :
      /\ Len(transaction_log) <= MaxLog
      /\ \E r \in {clear_all_inventory(Db(inventory, transaction_log), user,
                                       TRUE, NoFail)} :
            /\ inventory' = r.db.inventory
            /\ transaction_log' = r.db.transaction_log
            /\ applied' = IF r.db.inventory = <<>> THEN <<>> ELSE applied
            /\ last' = Call("confirm_clear_all", "", 0, r.storage, r.discarded,
                            r.ret, <<>>)
            /\ UNCHANGED handlers

\* handle_text_message on a QUERY intent: query_inventory(items[0]["name"])
QueryInventory ==
    \E item_name \in CandidateNames, connected \in BOOLEAN :
    \E failed \in IF connected THEN BOOLEAN ELSE {FALSE} :
      /\ last' = Asked("query_inventory",
                       IF ~connected THEN "noconn"
                       ELSE IF failed THEN "sqlerror" ELSE "ok",
                       item_name, NoNormalizer, <<>>,
                       query_inventory(Db(inventory, transaction_log), item_name,
                                       connected, failed))
      /\ UNCHANGED <<inventory, transaction_log, applied, handlers>>

\* a call of find_similar_item
FindSimilarItem ==
    \E item_name \in CandidateNames, normalize_func \in NormalizeFuncs :
    \E connected \in BOOLEAN :
      /\ last' = Asked("find_similar_item", IF connected THEN "ok" ELSE "noconn",
                       item_name, normalize_func,
                       find_similar_item(inventory, item_name, normalize_func, connected),
                       NoAnswer)
      /\ UNCHANGED <<inventory, transaction_log, applied, handlers>>

BotNext ==
    \/ HandleTextAddUse
    \/ ConfirmAddReceipt
    \/ ConfirmClearAll
    \/ QueryInventory
    \/ FindSimilarItem

BotSpec == Init /\ [][BotNext]_vars

(***************************************************************************)
(* The event loop: the handlers as coroutines that interleave at their     *)
(* await points only.  A step is the code of one handler between two       *)
(* awaits.  A message handler runs when its update arrives; a button       *)
(* handler first awaits query.answer().  A final await that nothing        *)
(* follows (the reply) ends the coroutine.  LoopSpec runs one user,        *)
(* single-item messages and receipts, with the storage answering; updates  *)
(* arrive while the log leaves room for the coroutines in flight.          *)
(***************************************************************************)
\* a message with buttons: the receipt prompt listing items, or the clear
\* prompt
ReceiptPrompt(items) == [kind |-> "receipt", items |-> items]

ClearPrompt == [kind |-> "clear", items |-> <<>>]

\* callback_data of the buttons of a prompt
Buttons(prompt) ==
    IF prompt.kind = "receipt"
    THEN {"confirm_add_receipt", "cancel_add_receipt"}
    ELSE {"confirm_clear_all", "cancel_clear_all"}

\* the latest store call of a handler: the items the message or the prompt
\* listed, the items passed to update_inventory, whether a receipt was
\* added that had been added before, and the items_count reported
Handled(op, action, ret, original, passed, again, count) ==
    [op |-> op, action |-> action, batch |-> Len(passed), storage |-> "ok",
     discarded |-> FALSE, ret |-> ret, rows |-> <<>>, original |-> original,
     passed |-> passed, again |-> again, count |-> count]

\* every statement preceded by an await
AwaitEverywhere(handler) ==
    {"update", "get", "edit", "del", "count", "clear"}

\* confirm_clear_all awaiting between the count and the clear as well
AwaitBeforeClear(handler) ==
    IF handler = "confirm_add_receipt" THEN {"edit"}
    ELSE IF handler = "confirm_clear_all" THEN {"clear"}
    ELSE {}

\* the statements of a handler that follow an await, besides the first
\* statement after await query.answer(): in confirm_add_receipt the del
\* follows await query.edit_message_text
AwaitPcs(handler) ==
    IF handler = "confirm_add_receipt" THEN {"edit"} ELSE {}

\* what a step of the loop depends on besides the state: the answers of the
\* language model and the user's first name
Envs == {[llm |-> llm, user |-> user] : llm \in HandlerLlms, user \in UpdateUsers}

\* the slots without a suspended coroutine
FreeSlots == {slot \in Slots : tasks[slot].handler = "idle"}

\* the slot a new coroutine takes
FreeSlot == CHOOSE slot \in FreeSlots : \A other \in FreeSlots : slot <= other

\* handle_text_message: update_inventory(action, items, user_name) on the
\* resolved items
TextUpdate(action, original, items, user) ==
    \E r \in {update_inventory(Db(inventory, transaction_log), action, items, user,
                                TRUE, NoFail)} :
        /\ inventory' = r.db.inventory
        /\ transaction_log' = r.db.transaction_log
        /\ applied' = applied \o AppliedOps(inventory, action, items, user)
        /\ last' = Handled("handle_text_message", action, r.ret, original, items,
                           FALSE, 0)
        /\ UNCHANGED <<pending_items, prompts, receipt_unapplied>>

\* a text or voice message with an ADD or USE intent arrives: the names are
\* resolved and the batch is applied
TextMessage ==
    /\ Len(transaction_log) + 1 < MaxLog
    /\ \E action \in Actions, items \in TextBatches(1), env \in Envs :
       \E resolved \in {ResolveItems(inventory, items, env.llm)} :
          IF "update" \in AwaitPcs("text_add_use")
          THEN /\ FreeSlots # {}
               /\ tasks' = [tasks EXCEPT ![FreeSlot] =
                               Task("text_add_use", "update", action, items, resolved, 0)]
               /\ UNCHANGED <<inventory, transaction_log, applied, last, pending_items,
                              prompts, receipt_unapplied>>
          ELSE /\ TextUpdate(action, items, resolved, env.user)
               /\ UNCHANGED tasks

\* a text or voice message with the CLEAR_ALL intent arrives: the listing,
\* then the reply or the prompt with the two buttons
ClearAllMessage ==
    /\ Len(transaction_log) + 1 < MaxLog
    /\ \E all_items \in {query_all_inventory(Db(inventory, transaction_log), TRUE, FALSE)} :
          prompts' = IF all_items = <<>> THEN prompts ELSE prompts \cup {ClearPrompt}
    /\ UNCHANGED <<inventory, transaction_log, applied, last, pending_items, tasks,
                   receipt_unapplied>>

\* a photo arrives and get_items_from_receipt reads items from it: they are
\* stored in context.user_data['pending_items'] and listed with the buttons
ImageMessage ==
    /\ Len(transaction_log) + 1 < MaxLog
    /\ \E items \in TextBatches(1) :
          /\ pending_items' = items
          /\ prompts' = prompts \cup {ReceiptPrompt(items)}
    /\ receipt_unapplied' = TRUE
    /\ UNCHANGED <<inventory, transaction_log, applied, last, tasks>>

\* the user presses a button of a prompt: the coroutine of
\* button_callback_handler is at await query.answer()
Press ==
    /\ Len(transaction_log) + 1 < MaxLog
    /\ FreeSlots # {}
    /\ \E prompt \in prompts, button \in {"confirm_add_receipt", "cancel_add_receipt",
                                           "confirm_clear_all", "cancel_clear_all"} :
          /\ button \in Buttons(prompt)
          /\ tasks' = [tasks EXCEPT ![FreeSlot] =
                          Task(button, "answer", "", prompt.items, <<>>, 0)]
    /\ UNCHANGED <<inventory, transaction_log, applied, last, pending_items,
                   prompts, receipt_unapplied>>

\* del context.user_data['pending_items'] after the reply; the handler ends
\* (with KeyError when the key is gone)
DelPending(slot, original) ==
    /\ pending_items' = <<>>
    /\ prompts' = prompts \ {ReceiptPrompt(original)}
    /\ tasks' = [tasks EXCEPT ![slot] = IdleTask]

\* button_callback_handler on confirm_add_receipt, from await query.answer()
\* or from await query.edit_message_text on
ConfirmAdd(slot, pc, original, user) ==
    IF pc = "edit"
    THEN /\ DelPending(slot, original)
         /\ UNCHANGED <<inventory, transaction_log, applied, last, receipt_unapplied>>
    ELSE IF pending_items = <<>>
    THEN /\ prompts' = prompts \ {ReceiptPrompt(original)}
         /\ tasks' = [tasks EXCEPT ![slot] = IdleTask]
         /\ UNCHANGED <<inventory, transaction_log, applied, last, pending_items,
                        receipt_unapplied>>
    ELSE \E items \in {pending_items} :
         \E r \in {update_inventory(Db(inventory, transaction_log), "ADD", items, user,
                                     TRUE, NoFail)} :
            /\ inventory' = r.db.inventory
            /\ transaction_log' = r.db.transaction_log
            /\ applied' = applied \o AppliedOps(inventory, "ADD", items, user)
            /\ last' = Handled("confirm_add_receipt", "ADD", r.ret, original, items,
                               r.ret = "True" /\ ~receipt_unapplied, 0)
            /\ receipt_unapplied' = IF r.ret = "True" THEN FALSE ELSE receipt_unapplied
            /\ IF "edit" \in AwaitPcs("confirm_add_receipt")
               THEN /\ tasks' = [tasks EXCEPT ![slot].pc = "edit"]
                    /\ UNCHANGED <<pending_items, prompts>>
               ELSE DelPending(slot, original)

\* button_callback_handler on cancel_add_receipt
CancelAdd(slot, original) ==
    /\ DelPending(slot, original)
    /\ UNCHANGED <<inventory, transaction_log, applied, last, receipt_unapplied>>

\* success = clear_all_inventory(user_name) and the reply with items_count
ClearCounted(slot, count, user) ==
    \E r \in {clear_all_inventory(Db(inventory, transaction_log), user, TRUE, NoFail)} :
        /\ inventory' = r.db.inventory
        /\ transaction_log' = r.db.transaction_log
        /\ applied' = IF r.db.inventory = <<>> THEN <<>> ELSE applied
        /\ last' = Handled("confirm_clear_all", "", r.ret, <<>>, <<>>, FALSE, count)
        /\ prompts' = prompts \ {ClearPrompt}
        /\ tasks' = [tasks EXCEPT ![slot] = IdleTask]
        /\ UNCHANGED <<pending_items, receipt_unapplied>>

\* button_callback_handler on confirm_clear_all: items_count =
\* len(query_all_inventory()), then the clear
ConfirmClear(slot, pc, held, user) ==
    IF pc = "clear" THEN ClearCounted(slot, held, user)
    ELSE \E count \in {Len(query_all_inventory(Db(inventory, transaction_log),
                                               TRUE, FALSE))} :
         IF "clear" \in AwaitPcs("confirm_clear_all")
         THEN /\ tasks' = [tasks EXCEPT ![slot].pc = "clear", ![slot].count = count]
              /\ UNCHANGED <<inventory, transaction_log, applied, last, pending_items,
                             prompts, receipt_unapplied>>
         ELSE ClearCounted(slot, count, user)

\* button_callback_handler on cancel_clear_all
CancelClear(slot) ==
    /\ prompts' = prompts \ {ClearPrompt}
    /\ tasks' = [tasks EXCEPT ![slot] = IdleTask]
    /\ UNCHANGED <<inventory, transaction_log, applied, last, pending_items,
                   receipt_unapplied>>

\* a suspended coroutine is resumed and runs to its next await or to its end
Resume ==
    /\ Len(transaction_log) < MaxLog
    /\ \E slot \in Slots, user \in UpdateUsers :
       \E t \in {tasks[slot]} :
          /\ t.handler # "idle"
          /\ CASE t.handler = "text_add_use" ->
                    /\ \E action \in {t.action}, original \in {t.original},
                          items \in {t.items} :
                          TextUpdate(action, original, items, user)
                    /\ tasks' = [tasks EXCEPT ![slot] = IdleTask]
               [] t.handler = "confirm_add_receipt" ->
                    \E pc \in {t.pc}, original \in {t.original} :
                       ConfirmAdd(slot, pc, original, user)
               [] t.handler = "cancel_add_receipt" ->
                    \E original \in {t.original} : CancelAdd(slot, original)
               [] t.handler = "confirm_clear_all" ->
                    \E pc \in {t.pc}, held \in {t.count} :
                       ConfirmClear(slot, pc, held, user)
               [] OTHER -> CancelClear(slot)

LoopNext ==
    \/ TextMessage
    \/ ClearAllMessage
    \/ ImageMessage
    \/ Press
    \/ Resume

LoopSpec == Init /\ [][LoopNext]_vars

(***************************************************************************)
(* What the properties read.                                               *)
(***************************************************************************)
\* the names update_inventory can store
StoredNames == {Lower(n) : n \in InputNames}

HasRow(inv, name) == \E i \in 1 .. Len(inv) : inv[i].item_name = name

RowNames(inv) == {inv[i].item_name : i \in 1 .. Len(inv)}

\* the quantity on record for a name, 0 without a row
QuantityOf(inv, name) ==
    IF HasRow(inv, name)
    THEN inv[CHOOSE i \in 1 .. Len(inv) : inv[i].item_name = name].quantity
    ELSE 0

\* the elements a step appended to a sequence
Appended(before, after) == SubSeq(after, Len(before) + 1, Len(after))

\* how many elements of a sequence are about a name
CountOf(seq, name, Key(_)) == Cardinality({i \in 1 .. Len(seq) : Key(seq[i]) = name})

LogName(l) == l.item_name

OpName(o) == o.name

\* a step created the row of a name, or changed the quantity on record for it
QuantityTouched(name) ==
    \/ ~HasRow(inventory, name) /\ HasRow(inventory', name)
    \/ QuantityOf(inventory, name) # QuantityOf(inventory', name)

\* C1: every commit of update_inventory or clear_all_inventory appends, for
\* each name, one log entry per mutation of that name's row, and no row's
\* quantity is created, changed, set to 0 or deleted without a log entry of
\* its name in the same commit.
C1_AuditInvariant ==
    [][\A name \in StoredNames :
         LET logged == CountOf(Appended(transaction_log, transaction_log'), name, LogName)
         IN /\ QuantityTouched(name) => logged >= 1
            /\ last'.op = "update_inventory" =>
                 logged = CountOf(Appended(applied, applied'), name, OpName)
            /\ last'.op = "clear_all_inventory" => logged <= 1]_vars

\* C2: every row of the inventory table has quantity >= 0, whatever numeric
\* quantities the calls carried.
C2_NonNegative == \A i \in 1 .. Len(inventory) : inventory[i].quantity >= 0

\* C3: the inventory table holds at most one row per item_name.
C3_UniqueNames ==
    \A i, j \in 1 .. Len(inventory) :
        inventory[i].item_name = inventory[j].item_name => i = j

\* a batch named one item twice, after the row had dropped to quantity 0 and
\* been added to again
C3_Witness ==
    /\ last.op = "update_inventory" /\ last.ret = "True" /\ last.batch = 2
    /\ Len(applied) = 3
    /\ applied[1].action = "ADD" /\ applied[2].action = "ADD" /\ applied[3].action = "ADD"
    /\ applied[1].quantity = 0
    /\ applied[1].name = applied[2].name /\ applied[2].name = applied[3].name
    /\ Len(inventory) = 1

\* the row of a name as the claims describe it: whether there is one, and
\* the quantity on it
RowState(inv, name) == [present |-> HasRow(inv, name), quantity |-> QuantityOf(inv, name)]

NoRow == [present |-> FALSE, quantity |-> 0]

\* one operation on a row state: ADD q creates the row with q or gives
\* old + q, USE q gives max(0, old - q) on a row and nothing without one
StepRow(row, o) ==
    IF o.action = "ADD"
    THEN [present |-> TRUE,
          quantity |-> IF row.present THEN row.quantity + o.quantity ELSE o.quantity]
    ELSE IF row.present
         THEN [present |-> TRUE,
               quantity |-> IF row.quantity - o.quantity > 0
                            THEN row.quantity - o.quantity ELSE 0]
         ELSE row

\* the operations of a name folded in order from a row state
RECURSIVE FoldRow(_, _, _)
FoldRow(row, ops, name) ==
    IF ops = <<>> THEN row
    ELSE FoldRow(IF Head(ops).name = name THEN StepRow(row, Head(ops)) ELSE row,
                 Tail(ops), name)

\* C4: a call of update_inventory or clear_all_inventory that returns True
\* has committed the whole batch with its log entries; one that does not
\* (no connection, a failed statement at any point, an exception) leaves
\* both tables as they were; a storage failure returns False.
C4_BatchAtomicity ==
    [][last'.op \in {"update_inventory", "clear_all_inventory"} =>
         /\ last'.storage # "ok" <=> last'.ret = "False"
         /\ last'.ret # "True" =>
              inventory' = inventory /\ transaction_log' = transaction_log
         /\ last'.ret = "True" /\ last'.op = "update_inventory" =>
              /\ \A name \in StoredNames :
                    RowState(inventory', name) =
                        FoldRow(RowState(inventory, name), Appended(applied, applied'), name)
              /\ Len(transaction_log') =
                    Len(transaction_log) + Len(Appended(applied, applied'))
         /\ last'.ret = "True" /\ last'.op = "clear_all_inventory" =>
              /\ Len(transaction_log') =
                    Len(transaction_log) + Len(PositiveRows(inventory))
              /\ \/ inventory' = <<>>
                 \/ PositiveRows(inventory) = <<>> /\ inventory' = inventory]_vars

\* a statement failed in a batch of two after earlier statements had been
\* executed, and the call returned False
C4_Witness ==
    /\ last.op = "update_inventory" /\ last.batch = 2
    /\ last.storage = "sqlerror" /\ last.discarded /\ last.ret = "False"
    /\ inventory # <<>>

\* C5: the quantity on record for each name is its applied operations folded
\* in order from the empty store: ADD q creates the row with q or gives
\* old + q, USE q gives max(0, old - q), clamped at each step.
C5_QuantityFold ==
    \A name \in StoredNames : RowState(inventory, name) = FoldRow(NoRow, applied, name)

\* ADD 1, USE 2, ADD 1 leaves 1: the USE was clamped when it was applied
C5_Witness ==
    /\ Len(applied) = 3
    /\ \A i \in 1 .. 3 : applied[i].name = <<"a">>
    /\ applied[1].action = "ADD" /\ applied[1].quantity = 1
    /\ applied[2].action = "USE" /\ applied[2].quantity = 2
    /\ applied[3].action = "ADD" /\ applied[3].quantity = 1
    /\ QuantityOf(inventory, <<"a">>) = 1

\* the log entry the claim gives an applied operation
LoggedFor(o) ==
    [item_name |-> o.name,
     quantity_change |-> IF o.action = "ADD" THEN o.quantity ELSE 0 - o.quantity,
     user_name |-> o.user]

\* C6: a committed update_inventory appends, in order, one log entry per
\* applied item: +quantity for an ADD, -quantity (the requested amount) for
\* a USE of an existing row, also when the stored quantity was clamped.
C6_LoggedAmounts ==
    [][last'.op = "update_inventory" /\ last'.ret = "True" =>
         LET ops == Appended(applied, applied') IN
         Appended(transaction_log, transaction_log') =
             [i \in 1 .. Len(ops) |-> LoggedFor(ops[i])]]_vars

\* USE 2 on a row holding 1 left quantity 0 and logged -2
C6_Witness ==
    /\ last.op = "update_inventory" /\ last.action = "USE" /\ last.ret = "True"
    /\ Len(applied) = 2 /\ Len(transaction_log) = 2
    /\ applied[1].action = "ADD" /\ applied[1].quantity = 1
    /\ applied[2].action = "USE" /\ applied[2].quantity = 2
    /\ applied[1].name = applied[2].name
    /\ transaction_log[2].quantity_change = -2
    /\ QuantityOf(inventory, applied[2].name) = 0

\* C7: a USE call never changes the set of inventory rows; an item whose
\* name has no row writes no log entry, and the call returns True unless
\* the storage fails.
C7_UseKeepsRows ==
    [][last'.op = "update_inventory" /\ last'.action = "USE" =>
         /\ Len(inventory') = Len(inventory)
         /\ \A i \in 1 .. Len(inventory) :
               inventory'[i].item_name = inventory[i].item_name
         /\ \A name \in StoredNames :
               ~HasRow(inventory, name) =>
                   CountOf(Appended(transaction_log, transaction_log'), name, LogName) = 0
         /\ last'.storage = "ok" /\ last'.ret # "raise" => last'.ret = "True"]_vars

\* a USE batch of two returned True with one item skipped (no row of its
\* name) and the other applied, its row left in the table at quantity 0
C7_Witness ==
    /\ last.op = "update_inventory" /\ last.action = "USE" /\ last.batch = 2
    /\ last.ret = "True"
    /\ Len(applied) = 2 /\ applied[2].action = "USE" /\ Len(transaction_log) = 2
    /\ Len(inventory) = 1 /\ inventory[1].quantity = 0

\* C8: an unparsable quantity is treated as 0 and the call returns a
\* boolean: no exception reaches the caller of update_inventory.
C8_LenientQuantity ==
    last.op = "update_inventory" => last.ret \in {"True", "False"}

\* C9: the result of query_all_inventory after a storage error is never the
\* empty sequence, which is the result on a store without positive rows.
C9_ErrorDistinguishable ==
    /\ last.op = "query_all_inventory" /\ last.storage = "ok"
         /\ PositiveRows(inventory) = <<>> => last.rows = <<>>
    /\ last.op = "query_all_inventory" /\ last.storage # "ok" => last.rows # <<>>

\* C10: query_all_inventory returns exactly the rows with quantity > 0, each
\* once, in ascending order of item_name.
C10_ListedRows ==
    last.op = "query_all_inventory" /\ last.storage = "ok" =>
        /\ \A i \in 1 .. Len(last.rows) - 1 :
              NameLess(last.rows[i].item_name, last.rows[i + 1].item_name)
        /\ {last.rows[i] : i \in 1 .. Len(last.rows)} =
              {Listed(inventory[i]) : i \in {j \in 1 .. Len(inventory) :
                                                inventory[j].quantity > 0}}

\* both rows listed, "a" before "b", from a table that holds "b" first
C10_Witness ==
    /\ last.op = "query_all_inventory" /\ last.storage = "ok"
    /\ Len(inventory) = 2 /\ inventory[1].item_name = <<"b">>
    /\ Len(last.rows) = 2 /\ last.rows[1].item_name = <<"a">>

\* a row at quantity 0 left out of the list
C10_WitnessZero ==
    /\ last.op = "query_all_inventory" /\ last.storage = "ok"
    /\ Len(inventory) = 2 /\ Len(last.rows) = 1
    /\ \E i \in 1 .. 2 : inventory[i].quantity = 0

\* C12: clear_all_inventory on a store without a row of quantity > 0 writes
\* nothing (the log and every row, rows at 0 included, stay as they were)
\* and, when the storage answers, returns True.
C12_ClearNothing ==
    [][last'.op = "clear_all_inventory" /\ PositiveRows(inventory) = <<>> =>
          /\ inventory' = inventory
          /\ transaction_log' = transaction_log
          /\ last'.storage = "ok" => last'.ret = "True"]_vars

\* a clear that returned True and left a row at quantity 0 in the table
C12_Witness ==
    /\ last.op = "clear_all_inventory" /\ last.ret = "True"
    /\ inventory # <<>> /\ \E i \in 1 .. Len(inventory) : inventory[i].quantity = 0

\* a step is clear_all_inventory(user) returning True without a storage error
ClearedBy(user) ==
    /\ last'.op = "clear_all_inventory" /\ last'.storage = "ok" /\ last'.ret = "True"
    /\ Db(inventory', transaction_log') =
           clear_all_inventory(Db(inventory, transaction_log), user, TRUE, NoFail).db

\* C13: a clear_all_inventory that meets rows of quantity > 0 and no storage
\* error appends one log entry per such row, in their order, with the
\* negated quantity of the row and the caller's name, and leaves the
\* inventory table without any row.
C13_ClearLogsAndEmpties ==
    [][\A user \in ClearUsers :
          ClearedBy(user) /\ PositiveRows(inventory) # <<>> =>
             LET rows == PositiveRows(inventory)
                 new == Appended(transaction_log, transaction_log') IN
             /\ inventory' = <<>>
             /\ Len(new) = Len(rows)
             /\ \A k \in 1 .. Len(rows) :
                   new[k] = LogRow(rows[k].item_name, 0 - rows[k].quantity, user)]_vars

\* Budi cleared two rows: the log ends with their two negative entries
C13_Witness ==
    /\ last.op = "clear_all_inventory" /\ last.ret = "True" /\ inventory = <<>>
    /\ Len(transaction_log) = 4
    /\ \A k \in {3, 4} : /\ transaction_log[k].user_name = "Budi"
                          /\ transaction_log[k].quantity_change < 0

\* C14: the transaction log is append-only: after every call, failed calls
\* included, the log begins with the log as it was before the call.
C14_AppendOnly ==
    [][/\ Len(transaction_log') >= Len(transaction_log)
       /\ SubSeq(transaction_log', 1, Len(transaction_log)) = transaction_log]_vars

\* a call that wrote, failed and was rolled back, with two entries on record
C14_Witness ==
    /\ last.ret = "False" /\ last.discarded
    /\ Len(transaction_log) >= 2

\* the names of the rows with quantity > 0
PositiveNames(inv) == {inv[i].item_name : i \in {j \in 1 .. Len(inv) : inv[j].quantity > 0}}

\* a row offers itself for a query: its quantity is positive and its name
\* contains the lowercased query or is contained in it
Offers(row, item_name) ==
    /\ row.quantity > 0
    /\ \/ Contains(row.item_name, Lower(item_name))
       \/ Contains(Lower(item_name), row.item_name)

\* C11: a query_inventory the storage answers tells the quantity and unit of
\* the row whose name equals the query case-insensitively when there is one;
\* otherwise it suggests a row of quantity > 0 whose name contains the
\* lowercased query or is contained in it when there is one; otherwise it
\* tells that nothing was found.
C11_QueryClasses ==
    last.op = "query_inventory" /\ last.storage = "ok" =>
        LET Exact(row) == Lower(row.item_name) = Lower(last.item_name)
            Rows == {inventory[i] : i \in 1 .. Len(inventory)} IN
        IF \E row \in Rows : Exact(row)
        THEN /\ last.answer.kind = "stock"
             /\ \E row \in Rows : /\ Exact(row)
                                   /\ last.answer.quantity = row.quantity
                                   /\ last.answer.unit = row.unit
        ELSE IF \E row \in Rows : Offers(row, last.item_name)
        THEN /\ last.answer.kind = "suggest"
             /\ \E row \in Rows : /\ Offers(row, last.item_name)
                                   /\ last.answer.name = row.item_name
                                   /\ last.answer.quantity = row.quantity
        ELSE last.answer.kind = "notfound"

\* the store holds "daging ayam" only and the query "ayam" is answered with
\* the suggestion "daging ayam"
C11_Witness ==
    /\ last.op = "query_inventory" /\ last.item_name = Ayam
    /\ PositiveNames(inventory) = {DagingAyam} /\ Len(inventory) = 1
    /\ last.answer.kind = "suggest" /\ last.answer.name = DagingAyam

\* a call of find_similar_item with a connection
Resolved == last.op = "find_similar_item" /\ last.storage = "ok"

\* a callable normalizes two names to the same string
SameNormal(f, a, b) == ~f[a].raises /\ ~f[b].raises /\ f[a].text = f[b].text

\* C15: find_similar_item with a normalizer, on a store where a name of
\* quantity > 0 normalizes to the same string as the candidate, returns a
\* stored name of quantity > 0 that normalizes to that string, not the
\* normalized string.
C15_SynonymMatch ==
    Resolved /\ last.normalize_func.supplied =>
        LET f == last.normalize_func.f IN
        (\E e \in PositiveNames(inventory) : SameNormal(f, e, last.item_name)) =>
            /\ last.name \in PositiveNames(inventory)
            /\ SameNormal(f, last.name, last.item_name)

\* "ayam" is stored and "daging ayam" resolves to it
C15_Witness ==
    /\ Resolved /\ last.normalize_func = NormalizeWith(LlmCanonical)
    /\ PositiveNames(inventory) = {Ayam}
    /\ last.item_name = DagingAyam /\ last.name = Ayam

\* C16: find_similar_item returns the stored name of quantity > 0 that equals
\* the candidate case-insensitively whenever there is one, with or without
\* a normalizer and whatever the normalizer returns.
C16_ExactFirst ==
    Resolved =>
        \A e \in PositiveNames(inventory) :
            Lower(e) = Lower(last.item_name) => last.name = e

\* no stored name of quantity > 0 matches the candidate of the latest call:
\* none equals it case-insensitively, none normalizes to the same string
NoMatch ==
    /\ \A e \in PositiveNames(inventory) : Lower(e) # Lower(last.item_name)
    /\ last.normalize_func.supplied =>
          \A e \in PositiveNames(inventory) :
              ~SameNormal(last.normalize_func.f, e, last.item_name)

\* C17: when no stored name matches, find_similar_item returns what the
\* normalizer returns for the candidate if a normalizer is supplied, and the
\* candidate lowercased and trimmed otherwise, also on a store without a
\* row of quantity > 0.
C17_NewName ==
    Resolved /\ NoMatch =>
        IF last.normalize_func.supplied
        THEN ~last.normalize_func.f[last.item_name].raises =>
                last.name = last.normalize_func.f[last.item_name].text
        ELSE last.name = Lower(Strip(last.item_name))

\* C18: find_similar_item on a name stored with quantity > 0 returns that
\* name.
C18_Idempotent ==
    Resolved /\ last.item_name \in PositiveNames(inventory) =>
        last.name = last.item_name

\* the local default: the name lowercased and trimmed, without the prefix
\* it starts with
LocalDefault(n) ==
    LET base == Strip(Lower(n)) IN
    IF \E k \in 1 .. Len(Prefixes) : StartsWith(base, Prefixes[k])
    THEN LET k == CHOOSE k \in 1 .. Len(Prefixes) : StartsWith(base, Prefixes[k]) IN
         SubSeq(base, Len(Prefixes[k]) + 1, Len(base))
    ELSE base

\* C19: when the language model fails on a name, normalize_ingredient_name
\* returns the local default for it and does not raise; a find_similar_item
\* given this normalizer returns a lowercase name and leaves both tables as
\* they were.
C19_OracleFailure ==
    [][last'.op = "find_similar_item" =>
         \A llm \in Llms :
            (/\ last'.normalize_func = NormalizeWith(llm)
             /\ \E n \in NameUniverse : llm[n].raises) =>
               /\ \A n \in NameUniverse :
                     llm[n].raises =>
                        last'.normalize_func.f[n] = Returned(LocalDefault(n))
               /\ last'.name = Lower(last'.name)
               /\ inventory' = inventory /\ transaction_log' = transaction_log]_vars

\* the model is down for "daging ayam" and for the stored "ayam", and the
\* call returns "ayam"
C19_Witness ==
    /\ last.op = "find_similar_item" /\ last.normalize_func = NormalizeWith(LlmPartial)
    /\ PositiveNames(inventory) = {Ayam}
    /\ last.item_name = DagingAyam /\ last.name = Ayam

\* the normalization of BotSpec's handlers
Canonical(n) == normalize_ingredient_name(n, LlmCanonical).text

\* C20: no two rows with quantity > 0 have names that normalize to the same
\* string, after any sequence of ADD and USE text messages, receipt
\* confirmations and clears.
C20_NoSynonymRows ==
    \A i, j \in 1 .. Len(inventory) :
        /\ i # j
        /\ inventory[i].quantity > 0 /\ inventory[j].quantity > 0
        => Canonical(inventory[i].item_name) # Canonical(inventory[j].item_name)

\* what find_similar_item can return on a store for the names of a message,
\* given normalize_ingredient_name
ResolverResults(inv) ==
    {find_similar_item(inv, n, NormalizeWith(llm), TRUE) :
        n \in TextNames, llm \in HandlerLlms}

\* C21: every handler that calls update_inventory, the text handler and the
\* receipt confirmation alike, calls it with names that find_similar_item
\* returned on the store as it was: every entry the call logged carries such
\* a name.
C21_ResolveBeforeMutate ==
    [][last'.op \in {"handle_text_message", "confirm_add_receipt"}
          /\ last'.ret = "True" =>
          LET new == Appended(transaction_log, transaction_log') IN
          \A k \in 1 .. Len(new) : new[k].item_name \in ResolverResults(inventory)]_vars

\* replaying the log entries of a name in order from quantity 0: each change
\* is added and the result clamped at 0
RECURSIVE Replay(_, _, _)
Replay(log, name, quantity) ==
    IF log = <<>> THEN quantity
    ELSE Replay(Tail(log), name,
                IF Head(log).item_name = name
                THEN Max0(quantity + Head(log).quantity_change)
                ELSE quantity)

\* C22: for every name, the replay of its log entries from quantity 0 yields
\* the quantity on record for it, 0 for a name without a row.
C22_LogReplay ==
    \A name \in StoredNames :
        Replay(transaction_log, name, 0) = QuantityOf(inventory, name)


\* a step ends the coroutine of a handler in some slot
Ends(handler) ==
    \E slot \in Slots : tasks[slot].handler = handler /\ tasks'[slot] = IdleTask

\* a coroutine is suspended at a statement
Suspended(handler, pc) ==
    \E slot \in Slots : tasks[slot].handler = handler /\ tasks[slot].pc = pc

\* C23: handlers interleaving at their await points only, every step that
\* changes the inventory or the log is one whole call of update_inventory or
\* of clear_all_inventory on the tables as the step found them, and the batch
\* handle_text_message applies is the message's items with their names
\* resolved by find_similar_item against those same tables: no mutation of
\* another handler falls between the resolution and the update, and no
\* update is lost.
C23_NoOverlap ==
    [][Db(inventory', transaction_log') # Db(inventory, transaction_log) =>
          \E env \in Envs :
             Db(inventory', transaction_log') =
                CASE last'.op = "handle_text_message" ->
                       update_inventory(Db(inventory, transaction_log), last'.action,
                                        ResolveItems(inventory, last'.original, env.llm),
                                        env.user, TRUE, NoFail).db
                  [] last'.op = "confirm_add_receipt" ->
                       update_inventory(Db(inventory, transaction_log), "ADD",
                                        last'.passed, env.user, TRUE, NoFail).db
                  [] OTHER ->
                       clear_all_inventory(Db(inventory, transaction_log), env.user,
                                           TRUE, NoFail).db]_vars

\* a text message's name was replaced by a stored one and the batch applied
\* while a receipt confirmation is suspended at its reply
C23_Witness ==
    /\ last.op = "handle_text_message" /\ last.ret = "True"
    /\ last.passed # last.original
    /\ Suspended("confirm_add_receipt", "edit")

\* C24: a receipt's items are applied at most once: a confirm_add_receipt
\* that adds items adds the items of an upload no confirmation has added
\* before.
C24_AppliedOnce ==
    last.op = "confirm_add_receipt" /\ last.ret = "True" => ~last.again

\* C25: a confirm_add_receipt press passes update_inventory the items listed
\* in the prompt whose button was pressed.
C25_PromptItems ==
    last.op = "confirm_add_receipt" => last.passed = last.original

\* C26: the CLEAR_ALL text action and the cancel_clear_all button leave the
\* inventory and the log unchanged; the tables change only in a text ADD or
\* USE, a receipt confirmation or a confirm_clear_all; and when the
\* clear_all_inventory of a confirm_clear_all returns True the count the
\* reply reports is the number of rows of quantity > 0 that call found.
C26_ClearOnConfirm ==
    [][/\ ClearAllMessage \/ Ends("cancel_clear_all") =>
            UNCHANGED <<inventory, transaction_log>>
       /\ Db(inventory', transaction_log') # Db(inventory, transaction_log) =>
            \/ last'.op \in {"handle_text_message", "confirm_add_receipt"}
            \/ Ends("confirm_clear_all")
       /\ Ends("confirm_clear_all") /\ last'.ret = "True" =>
            last'.count = Len(PositiveRows(inventory))]_vars

\* a confirmed clear reported two items and left the inventory empty, the
\* prompt having been posted when the store held one
C26_Witness ==
    /\ last.op = "confirm_clear_all" /\ last.ret = "True"
    /\ last.count = 2
    /\ inventory = <<>>

====
